---- MODULE Spec2Model ----
(***************************************************************************)
(* Model of the MeteorMadness 2-D impact visualiser.                       *)
(*                                                                         *)
(* TimelineController (src/backend/services/POPULATION_SERVICE.md,         *)
(* lines 161-364) is the playback cursor: currentTime, duration,           *)
(* isPlaying, playbackSpeed, animationId, lastUpdateTime and callbacks are  *)
(* its fields.  The browser side it talks to is modelled by now            *)
(* (performance.now(), milliseconds), pending (animation frames requested  *)
(* and neither run nor cancelled) and nextId (the handle the next          *)
(* requestAnimationFrame returns).                                         *)
(*                                                                         *)
(* Times are JavaScript numbers.  The model keeps the integral ones and    *)
(* NaN: setDuration(undefined) is what loadScenarioFromHardcodedData does, *)
(* and undefined behaves as NaN in every arithmetic use the controller     *)
(* makes of the duration.                                                  *)
(*                                                                         *)
(* ImpactVisualizer (src/unnamed/part_004) observes the cursor.  scenario  *)
(* is the hardcoded scenario its interpolator reads (markers and           *)
(* temporalEffects) and interpolatedData what interpolateTemporalData      *)
(* returned for currentTime; currentBackendData is the backend payload,    *)
(* frontendFormat what ImpactAPI.convertToFrontendFormat                   *)
(* (src/2dvisualisation/api-client.js) made of it and realtimeData what    *)
(* updateRealtimeDataFromBackend showed.  Effect samples are rationals     *)
(* <<n, d>>, d = 0 standing for undefined, NaN and the infinities.         *)
(*                                                                         *)
(* Its scenario loads (loadScenario and the two loaders) add               *)
(* currentScenario, useBackendData and the backend requests in flight.     *)
(*                                                                         *)
(* GlobeApp (src/unnamed/part_006) and DefenseManager                      *)
(* (src/unnamed/part_005) are the 3-D globe: the asteroids array, the      *)
(* defense switch and its spacecraft.                                      *)
(*                                                                         *)
(* The population service is described in POPULATION_SERVICE.md and in     *)
(* the specification only; its cache (least recent entry first) and its    *)
(* two operations are modelled from those descriptions.                    *)
(***************************************************************************)
EXTENDS Integers, Sequences, FiniteSets, TLC

\* ---------------------------------------------------------------- bounds
\* The clock advances one second at a time, at most MaxTicks times.
MaxTicks == 1
\* Handles requestAnimationFrame may hand out.
MaxFrames == 2
\* Observers onTimeChange may register.
MaxCallbacks == 2
\* Markers of a hardcoded scenario.
MaxMarkers == 4
\* Samples of a backend payload's time_hours.
MaxTimePoints == 2
\* Entries of a time_hours array handed to findClosestTimeIndex alone.
MaxHours == 3
\* Calls of loadScenario.
MaxLoads == 3
\* Asteroids spawned.
MaxAsteroids == 3
\* Calls of population_in_radius that are followed.
MaxQueries == 3
\* Zones of one casualties_by_zone call.
MaxZones == 3

\* ------------------------------------------------------- program constants
DefaultDuration == 259200
StepSeconds == 3600
SecondsPerHour == 3600
MsPerSecond == 1000
SliderMax == 100
DefaultAirQuality == 50
DustScale == 1000000
MaxDamagePercent == 100
RadiusPerPercent == 10
CacheCapacity == 500
\* animationId = null; requestAnimationFrame handles are positive.
Null == 0
\* NaN, and undefined where a number is expected.
NaN == -1

VARIABLES
    currentTime, duration, isPlaying, playbackSpeed, animationId,
    lastUpdateTime, callbacks,
    now, pending, nextId,
    notified,     \* the observer calls made by the latest program step
    lastCall,     \* the latest cursor operation: a method call, or "advance"
                  \* for an animation frame that ran while playing
    wasPlaying,   \* isPlaying as lastCall found it
    lastDelta,    \* the milliseconds lastCall's animate() measured
    staleFrames,  \* animation frames run while stopped since lastCall
    scenario, interpolatedData,
    currentBackendData, frontendFormat, realtimeData,
    currentScenario, useBackendData,
    requests,     \* the getSampleScenario calls awaiting their response
    requested,    \* the scenario ids handed to loadScenario, in call order
    failedLoads,  \* the scenario ids whose backend load has failed
    lastLoad,     \* what the latest step of a scenario load did
    cache,        \* the population service's results, least recent first
    answer,       \* what the latest call of the population service returned
    query,        \* the latest call of the population service
    returned,     \* every (arguments, result) population_in_radius returned
    lastUse,      \* the number of the call that last used each cached key
    asteroids,    \* GlobeApp's asteroids array
    nextAsteroid,
    isDefenseEnabled,
    spacecraft,   \* DefenseManager has a spacecraft in the scene
    impacts       \* the handleImpact calls made so far

vars == <<currentTime, duration, isPlaying, playbackSpeed, animationId,
          lastUpdateTime, callbacks, now, pending, nextId,
          notified, lastCall, wasPlaying, lastDelta, staleFrames,
          scenario, interpolatedData,
          currentBackendData, frontendFormat, realtimeData,
          currentScenario, useBackendData, requests, requested, failedLoads,
          lastLoad, cache, answer, query, returned, lastUse,
          asteroids, nextAsteroid, isDefenseEnabled, spacecraft, impacts>>

\* The cursor with its browser side, and the visualiser's data.
timelineVars == <<duration, isPlaying, playbackSpeed, animationId,
                  lastUpdateTime, callbacks, now, pending, nextId,
                  notified, lastCall, wasPlaying, lastDelta, staleFrames>>
visualVars == <<scenario, interpolatedData,
                currentBackendData, frontendFormat, realtimeData>>

\* The scenario loader, the population service and the globe's asteroids.
loadVars == <<currentScenario, useBackendData, requests, requested,
              failedLoads, lastLoad>>
populationVars == <<cache, answer, query, returned, lastUse>>
asteroidVars == <<asteroids, nextAsteroid, isDefenseEnabled, spacecraft,
                  impacts>>

\* Nothing loaded, nothing computed yet.
Unset == [outcome |-> "none"]

\* ImpactVisualizer's constructor: no load has been asked for.
LoaderAtRest ==
    /\ currentScenario = "tunguska"
    /\ useBackendData = TRUE
    /\ requests = {}
    /\ requested = <<>>
    /\ failedLoads = {}
    /\ lastLoad = [call |-> "new"]

\* The population service before its first call.
PopulationAtRest ==
    /\ cache = <<>>
    /\ answer = Unset
    /\ query = [op |-> "none", n |-> 0]
    /\ returned = {}
    /\ lastUse = <<>>

\* GlobeApp's and DefenseManager's constructors.
AsteroidsAtRest ==
    /\ asteroids = <<>>
    /\ nextAsteroid = 1
    /\ isDefenseEnabled = FALSE
    /\ spacecraft = FALSE
    /\ impacts = {}

\* The parts of the program a step does not belong to stay as they are.
LoadIdle == UNCHANGED loadVars
PopulationIdle == UNCHANGED populationVars
AsteroidIdle == UNCHANGED asteroidVars
OthersIdle == LoadIdle /\ PopulationIdle /\ AsteroidIdle

\* ------------------------------------------------------ JavaScript numbers
IsNaN(x) == x = NaN

\* a + b
Plus(a, b) == IF IsNaN(a) \/ IsNaN(b) THEN NaN ELSE a + b

\* a >= b
Geq(a, b) == ~IsNaN(a) /\ ~IsNaN(b) /\ a >= b

\* Math.min(a, b)
MathMin(a, b) == IF IsNaN(a) \/ IsNaN(b) THEN NaN ELSE IF a <= b THEN a ELSE b

\* ------------------------------------------------------------------ inputs
\* What the callers hand to setDuration: Math.max(...time_hours) * 3600 on
\* the backend path, scenario.duration on the hardcoded path, a field no
\* entry of scenarioMetadata has.
DurationInputs == {0, SecondsPerHour, DefaultDuration, NaN}

\* Values of the timeline slider, a range input running from 0 to 100.
SliderValues == {0, SliderMax \div 2, SliderMax}

\* Values of the speed slider.
SpeedValues == {1, 2}

\* ------------------------------------------------------------ constructor
Init ==
    /\ currentTime = 0
    /\ duration = DefaultDuration
    /\ isPlaying = FALSE
    /\ playbackSpeed = 1
    /\ animationId = Null
    /\ lastUpdateTime = 0
    /\ callbacks = <<>>
    /\ now = 0
    /\ pending = {}
    /\ nextId = 1
    /\ notified = <<>>
    /\ lastCall = "new"
    /\ wasPlaying = FALSE
    /\ lastDelta = 0
    /\ staleFrames = 0
    /\ scenario = Unset
    /\ interpolatedData = Unset
    /\ currentBackendData = Unset
    /\ frontendFormat = Unset
    /\ realtimeData = Unset
    /\ LoaderAtRest
    /\ PopulationAtRest
    /\ AsteroidsAtRest

\* ---------------------------------------------------------------- helpers
\* The first function registered is one that throws whenever it is called.
ThrowingObservers == {1}

Throws(cb) == cb \in ThrowingObservers

\* notifyCallbacks() with one try/catch around the whole forEach: the first
\* callback that throws ends the iteration.
NotifyUntilThrow(t) ==
    LET throwers == {i \in 1 .. Len(callbacks) : Throws(callbacks[i])}
        last == IF throwers = {}
                THEN Len(callbacks)
                ELSE CHOOSE i \in throwers : \A j \in throwers : i <= j
    IN  [i \in 1 .. last |-> <<callbacks[i], t>>]

\* notifyCallbacks() run before the cursor is assigned: observers are handed
\* the time the operation found.
NotifyCallbacksEarly(t) ==
    [i \in 1 .. Len(callbacks) |-> <<callbacks[i], currentTime>>]

\* notifyCallbacks(): every callback, in registration order, is called with
\* this.currentTime; what a callback throws is caught and logged.
NotifyCallbacks(t) == [i \in 1 .. Len(callbacks) |-> <<callbacks[i], t>>]

\* pause() without "this.isPlaying = false".
PauseKeepsPlaying(aid, pend) ==
    [isPlaying |-> isPlaying,
     animationId |-> Null,
     pending |-> IF aid # Null THEN pend \ {aid} ELSE pend]

\* pause() without cancelAnimationFrame.
PauseLeavesFrame(aid, pend) ==
    [isPlaying |-> FALSE, animationId |-> Null, pending |-> pend]

\* pause(): isPlaying = false, and the frame animationId names is cancelled.
Pause(aid, pend) ==
    [isPlaying |-> FALSE,
     animationId |-> Null,
     pending |-> IF aid # Null THEN pend \ {aid} ELSE pend]

\* deltaTime * this.playbackSpeed, without the factor 3600.
AdvanceBySeconds(deltaMs, speed) == (deltaMs * speed) \div MsPerSecond

\* deltaTime * this.playbackSpeed * 3600, with deltaTime = deltaMs / 1000.
AdvanceBy(deltaMs, speed) == (deltaMs * speed * SecondsPerHour) \div MsPerSecond

\* this.currentTime > this.duration
PassedEnd(t, dur) == ~IsNaN(t) /\ ~IsNaN(dur) /\ t > dur

\* this.currentTime >= this.duration
ReachedEnd(t, dur) == Geq(t, dur)

\* animate() without its first line.
AnimateAlways(playing) == TRUE

\* if (!this.isPlaying) return;
AnimateRuns(playing) == playing

\* animate(), entered with isPlaying = playing, lastUpdateTime = lut and the
\* requested frames pend.
Animate(playing, lut, pend) ==
    IF ~AnimateRuns(playing)
    THEN /\ pending' = pend
         /\ isPlaying' = playing
         /\ lastUpdateTime' = lut
         /\ notified' = <<>>
         /\ UNCHANGED <<currentTime, animationId, nextId>>
    ELSE LET advanced == Plus(currentTime, AdvanceBy(now - lut, playbackSpeed))
             atEnd == ReachedEnd(advanced, duration)
             paused == Pause(animationId, pend)
             playingOn == IF atEnd THEN paused.isPlaying ELSE playing
         IN  /\ lastUpdateTime' = now
             /\ currentTime' = IF atEnd THEN duration ELSE advanced
             /\ notified' = NotifyCallbacks(currentTime')
             /\ isPlaying' = playingOn
             /\ IF playingOn
                THEN /\ nextId <= MaxFrames
                     /\ animationId' = nextId
                     /\ pending' = pend \cup {nextId}
                     /\ nextId' = nextId + 1
                ELSE /\ animationId' = IF atEnd THEN paused.animationId ELSE animationId
                     /\ pending' = IF atEnd THEN paused.pending ELSE pend
                     /\ nextId' = nextId

\* this.currentTime + 3600, without Math.min.
StepTimeUnclamped(t, dur) == Plus(t, StepSeconds)

\* Math.min(this.currentTime + 3600, this.duration)
StepTime(t, dur) == MathMin(Plus(t, StepSeconds), dur)

\* step() without this.pause().
StepNoPause(playing, aid, pend) ==
    [isPlaying |-> playing, animationId |-> aid, pending |-> pend]

\* step() begins with this.pause().
StepPause(playing, aid, pend) == Pause(aid, pend)

\* percentage * this.duration, without the division by 100.
ScrubTimeUnscaled(percentage, dur) ==
    IF IsNaN(dur) THEN NaN ELSE percentage * dur

\* (percentage / 100) * this.duration
ScrubTime(percentage, dur) ==
    IF IsNaN(dur) THEN NaN ELSE (percentage * dur) \div SliderMax

\* ------------------------------------------------------------- operations
\* onTimeChange(callback): the k-th function registered is observer k.
OnTimeChange ==
    /\ Len(callbacks) < MaxCallbacks
    /\ callbacks' = Append(callbacks, Len(callbacks) + 1)
    /\ UNCHANGED <<currentTime, duration, isPlaying, playbackSpeed, animationId,
                   lastUpdateTime, now, pending, nextId, notified, lastCall,
                   wasPlaying, lastDelta, staleFrames>>

\* The speed slider's input handler.
SetSpeed(s) ==
    /\ playbackSpeed' = s
    /\ UNCHANGED <<currentTime, duration, isPlaying, animationId,
                   lastUpdateTime, callbacks, now, pending, nextId, notified,
                   lastCall, wasPlaying, lastDelta, staleFrames>>

\* play()
Play ==
    /\ Animate(TRUE, now, pending)
    /\ lastCall' = "play"
    /\ wasPlaying' = isPlaying
    /\ lastDelta' = 0
    /\ staleFrames' = 0
    /\ UNCHANGED <<duration, playbackSpeed, callbacks, now>>

\* pause()
PauseCall ==
    LET paused == Pause(animationId, pending)
    IN  /\ isPlaying' = paused.isPlaying
        /\ animationId' = paused.animationId
        /\ pending' = paused.pending
        /\ notified' = <<>>
        /\ lastCall' = "pause"
        /\ wasPlaying' = isPlaying
        /\ lastDelta' = 0
        /\ staleFrames' = 0
        /\ UNCHANGED <<currentTime, duration, playbackSpeed, lastUpdateTime,
                       callbacks, now, nextId>>

\* togglePlayback(), the play/pause button's click handler.
TogglePlayback == IF isPlaying THEN PauseCall ELSE Play

\* reset()
Reset ==
    LET paused == Pause(animationId, pending)
    IN  /\ isPlaying' = paused.isPlaying
        /\ animationId' = paused.animationId
        /\ pending' = paused.pending
        /\ currentTime' = 0
        /\ notified' = NotifyCallbacks(currentTime')
        /\ lastCall' = "reset"
        /\ wasPlaying' = isPlaying
        /\ lastDelta' = 0
        /\ staleFrames' = 0
        /\ UNCHANGED <<duration, playbackSpeed, lastUpdateTime, callbacks, now,
                       nextId>>

\* step()
Step ==
    LET paused == StepPause(isPlaying, animationId, pending)
    IN  /\ isPlaying' = paused.isPlaying
        /\ animationId' = paused.animationId
        /\ pending' = paused.pending
        /\ currentTime' = StepTime(currentTime, duration)
        /\ notified' = NotifyCallbacks(currentTime')
        /\ lastCall' = "step"
        /\ wasPlaying' = isPlaying
        /\ lastDelta' = 0
        /\ staleFrames' = 0
        /\ UNCHANGED <<duration, playbackSpeed, lastUpdateTime, callbacks, now,
                       nextId>>

\* setDuration(duration)
SetDuration(d) ==
    LET paused == Pause(animationId, pending)
    IN  /\ duration' = d
        /\ currentTime' = 0
        /\ isPlaying' = paused.isPlaying
        /\ animationId' = paused.animationId
        /\ pending' = paused.pending
        /\ notified' = <<>>
        /\ lastCall' = "setDuration"
        /\ wasPlaying' = isPlaying
        /\ lastDelta' = 0
        /\ staleFrames' = 0
        /\ UNCHANGED <<playbackSpeed, lastUpdateTime, callbacks, now, nextId>>

\* The timeline slider's input handler.
Scrub(percentage) ==
    /\ currentTime' = ScrubTime(percentage, duration)
    /\ notified' = NotifyCallbacks(currentTime')
    /\ lastCall' = "scrub"
    /\ wasPlaying' = isPlaying
    /\ lastDelta' = 0
    /\ staleFrames' = 0
    /\ UNCHANGED <<duration, isPlaying, playbackSpeed, animationId,
                   lastUpdateTime, callbacks, now, pending, nextId>>

\* The browser runs the requested frame id: () => this.animate().
AnimationFrame(id) ==
    /\ id \in pending
    /\ Animate(isPlaying, lastUpdateTime, pending \ {id})
    /\ lastCall' = IF isPlaying THEN "advance" ELSE lastCall
    /\ wasPlaying' = IF isPlaying THEN TRUE ELSE wasPlaying
    /\ lastDelta' = IF isPlaying THEN now - lastUpdateTime ELSE lastDelta
    /\ staleFrames' = IF isPlaying THEN 0 ELSE staleFrames + 1
    /\ UNCHANGED <<duration, playbackSpeed, callbacks, now>>

\* A second passes on the performance.now() clock.
Tick ==
    /\ now < MaxTicks * MsPerSecond
    /\ now' = now + MsPerSecond
    /\ UNCHANGED <<currentTime, duration, isPlaying, playbackSpeed, animationId,
                   lastUpdateTime, callbacks, pending, nextId, notified,
                   lastCall, wasPlaying, lastDelta, staleFrames>>


\* ------------------------------------------------- effect-sample numbers
\* A JavaScript number of the effect data is <<n, d>>: n/d in lowest terms
\* with d > 0, or d = 0 for what is not a finite number (undefined, NaN,
\* +-Infinity): arithmetic on such a value never gives a finite one.
Undefined == <<0, 0>>

IsFinite(x) == x[2] # 0

Abs(n) == IF n < 0 THEN -n ELSE n

RECURSIVE GCD(_, _)
GCD(a, b) == IF b = 0 THEN a ELSE GCD(b, a % b)

Rat(n, d) ==
    IF d = 0
    THEN Undefined
    ELSE LET g == GCD(Abs(n), Abs(d))
             sign == IF d < 0 THEN -1 ELSE 1
         IN  <<(sign * n) \div g, (sign * d) \div g>>

Num(k) == Rat(k, 1)

\* a + b, a - b, a * b, a / b
Add(a, b) ==
    IF IsFinite(a) /\ IsFinite(b)
    THEN Rat(a[1] * b[2] + b[1] * a[2], a[2] * b[2]) ELSE Undefined

Sub(a, b) ==
    IF IsFinite(a) /\ IsFinite(b)
    THEN Rat(a[1] * b[2] - b[1] * a[2], a[2] * b[2]) ELSE Undefined

Mul(a, b) ==
    IF IsFinite(a) /\ IsFinite(b)
    THEN Rat(a[1] * b[1], a[2] * b[2]) ELSE Undefined

Div(a, b) ==
    IF IsFinite(a) /\ IsFinite(b)
    THEN Rat(a[1] * b[2], a[2] * b[1]) ELSE Undefined

\* a <= b, false when either is not a finite number.
LessEq(a, b) == IsFinite(a) /\ IsFinite(b) /\ a[1] * b[2] <= b[1] * a[2]

\* Math.round(x): the nearest integer, halves upwards.
MathRound(x) ==
    IF IsFinite(x) THEN Num((2 * x[1] + x[2]) \div (2 * x[2])) ELSE Undefined

IsInteger(x) == IsFinite(x) /\ x[2] = 1

\* a <= b on the cursor's numbers.
Leq(a, b) == ~IsNaN(a) /\ ~IsNaN(b) /\ a <= b

\* ------------------------------------------- interpolateTemporalData
\* The effects of a snapshot.
EffectKeys ==
    {"blastRadius", "seismicIntensity", "thermalRadius", "casualties",
     "airQuality", "temperatureRise", "radiationLevel", "windSpeed",
     "debrisCloud", "infrastructureDamage"}

\* The effects interpolateTemporalData wraps in Math.round.
RoundedKeys == {"casualties", "airQuality", "windSpeed", "infrastructureDamage"}

\* arr[index - 1] of the code, whose indices start at 0: undefined past
\* the end of the array.
At(arr, index) == IF index \in 1 .. Len(arr) THEN arr[index] ELSE Undefined

\* getEffectsAtIndex(index, effects): the samples as they are stored.
GetEffectsAtIndex(index, effects) ==
    [k \in EffectKeys |-> At(effects[k], index)]

\* The for loop run to its end, without the break: the last adjacent pair
\* around t.
LastBracket(t, markers) ==
    LET hits == {i \in 1 .. Len(markers) - 1 :
                    Geq(t, markers[i].time) /\ Leq(t, markers[i + 1].time)}
    IN  IF hits = {}
        THEN [before |-> 1, after |-> 1]
        ELSE LET i == CHOOSE h \in hits : \A g \in hits : g <= h
             IN  [before |-> i, after |-> i + 1]

\* The for loop: beforeIndex and afterIndex are the first adjacent pair
\* with markers[i].time <= t <= markers[i + 1].time, and both stay at the
\* first marker when there is none.
BracketIndex(t, markers) ==
    LET hits == {i \in 1 .. Len(markers) - 1 :
                    Geq(t, markers[i].time) /\ Leq(t, markers[i + 1].time)}
    IN  IF hits = {}
        THEN [before |-> 1, after |-> 1]
        ELSE LET i == CHOOSE h \in hits : \A g \in hits : h <= g
             IN  [before |-> i, after |-> i + 1]

\* The first clamp left out: times before the first marker extrapolate.
NoLowerClamp(t, markers) == FALSE

\* currentTime <= markers[0].time
AtOrBeforeFirst(t, markers) == Leq(t, markers[1].time)

\* currentTime >= markers[markers.length - 1].time
AtOrAfterLast(t, markers) == Geq(t, markers[Len(markers)].time)

\* The progress measured from time 0 instead of from the marker before.
TimeProgressFromZero(t, beforeTime, timeDiff) == Div(Num(t), Num(timeDiff))

\* (currentTime - beforeMarker.time) / timeDiff
TimeProgress(t, beforeTime, timeDiff) ==
    Div(Num(t - beforeTime), Num(timeDiff))

\* The difference added to the later sample: after + (after - before) * p.
InterpolateFromAfter(before, after, timeProgress) ==
    Add(after, Mul(Sub(after, before), timeProgress))

\* interpolate(before, after): before + (after - before) * timeProgress
Interpolate(before, after, timeProgress) ==
    Add(before, Mul(Sub(after, before), timeProgress))

\* interpolateTemporalData(currentTime, scenario)
InterpolateTemporalData(t, sc) ==
    LET markers == sc.markers
        effects == sc.temporalEffects
        pair == BracketIndex(t, markers)
    IN  IF AtOrBeforeFirst(t, markers)
        THEN GetEffectsAtIndex(1, effects)
        ELSE IF AtOrAfterLast(t, markers)
        THEN GetEffectsAtIndex(Len(markers), effects)
        ELSE LET beforeTime == markers[pair.before].time
                 timeDiff == markers[pair.after].time - beforeTime
                 timeProgress == TimeProgress(t, beforeTime, timeDiff)
                 value(k) == Interpolate(At(effects[k], pair.before),
                                         At(effects[k], pair.after),
                                         timeProgress)
             IN  [k \in EffectKeys |->
                    IF k \in RoundedKeys THEN MathRound(value(k)) ELSE value(k)]

\* ------------------------------------------------- the backend payload
\* x || fallback: the fallback replaces undefined, NaN and 0.
OrDefault(x, fallback) ==
    IF IsFinite(x) /\ x[1] # 0 THEN x ELSE fallback

\* Math.max(a, b) and Math.min(a, b) on effect samples.
Max2(a, b) ==
    IF IsFinite(a) /\ IsFinite(b)
    THEN IF LessEq(a, b) THEN b ELSE a
    ELSE Undefined

Min2(a, b) ==
    IF IsFinite(a) /\ IsFinite(b)
    THEN IF LessEq(a, b) THEN a ELSE b
    ELSE Undefined

\* a < b, false when either is not a finite number.
Less(a, b) == IsFinite(a) /\ IsFinite(b) /\ a[1] * b[2] < b[1] * a[2]

\* Math.abs(x)
MathAbs(x) == IF Less(x, Num(0)) THEN Sub(Num(0), x) ELSE x

\* intensities[0] in place of the maximum.
FirstOf(intensities) == At(intensities, 1)

\* Math.max(...intensities); -Infinity for an empty row.
RECURSIVE MathMaxOf(_)
MathMaxOf(intensities) ==
    IF Len(intensities) = 0 THEN Undefined
    ELSE IF Len(intensities) = 1 THEN intensities[1]
    ELSE Max2(intensities[1], MathMaxOf(Tail(intensities)))

\* The loop with "diff <= minDiff": of two samples equally close, the
\* later one wins.
RECURSIVE ClosestFromLatest(_, _, _, _, _)
ClosestFromLatest(timeHours, targetTime, i, closestIndex, minDiff) ==
    IF i > Len(timeHours) THEN closestIndex
    ELSE LET diff == MathAbs(Sub(Num(timeHours[i]), targetTime))
         IN  IF LessEq(diff, minDiff)
             THEN ClosestFromLatest(timeHours, targetTime, i + 1, i, diff)
             ELSE ClosestFromLatest(timeHours, targetTime, i + 1,
                                    closestIndex, minDiff)

\* The loop of findClosestTimeIndex from sample i on: a sample replaces
\* the closest one so far only when it is strictly closer.
RECURSIVE ClosestFrom(_, _, _, _, _)
ClosestFrom(timeHours, targetTime, i, closestIndex, minDiff) ==
    IF i > Len(timeHours) THEN closestIndex
    ELSE LET diff == MathAbs(Sub(Num(timeHours[i]), targetTime))
         IN  IF Less(diff, minDiff)
             THEN ClosestFrom(timeHours, targetTime, i + 1, i, diff)
             ELSE ClosestFrom(timeHours, targetTime, i + 1,
                              closestIndex, minDiff)

\* findClosestTimeIndex(timeHours, targetTime); indices start at 1 here.
FindClosestTimeIndex(timeHours, targetTime) ==
    ClosestFrom(timeHours, targetTime, 2, 1,
                MathAbs(Sub(Num(timeHours[1]), targetTime)))

\* Math.max(severe || 0, moderate || 0, light || 0)
MaxDamageRadius(t) ==
    Max2(OrDefault(t.severe_damage_radius_km, Num(0)),
         Max2(OrDefault(t.moderate_damage_radius_km, Num(0)),
              OrDefault(t.light_damage_radius_km, Num(0))))

\* updateRealtimeDataFromBackend(timeIndex): the data object handed to
\* updateRealtimeData; a key the code does not set is Undefined.
RealtimeDataFromBackend(backendData, timeIndex) ==
    LET effects == backendData.effects
        has(timeline) == timeIndex \in 1 .. Len(timeline)
    IN  [seismicIntensity |->
            IF effects.seismic.present /\ has(effects.seismic.intensity_grid)
            THEN MathMaxOf(effects.seismic.intensity_grid[timeIndex])
            ELSE Undefined,
         airQuality |->
            IF effects.atmospheric.present /\ has(effects.atmospheric.timeline)
            THEN OrDefault(effects.atmospheric.timeline[timeIndex].air_quality_index,
                           Num(DefaultAirQuality))
            ELSE Undefined,
         temperatureChange |->
            IF effects.atmospheric.present /\ has(effects.atmospheric.timeline)
            THEN OrDefault(effects.atmospheric.timeline[timeIndex].temperature_change_c,
                           Num(0))
            ELSE Undefined,
         thermalRadius |->
            IF effects.thermal.present /\ has(effects.thermal.timeline)
            THEN OrDefault(effects.thermal.timeline[timeIndex].thermal_radius_km,
                           Num(0))
            ELSE Undefined,
         infrastructureDamage |->
            IF effects.infrastructure.present
                 /\ has(effects.infrastructure.timeline)
            THEN Div(MaxDamageRadius(effects.infrastructure.timeline[timeIndex]),
                     Num(RadiusPerPercent))
            ELSE Undefined]

\* updateVisualizationFromBackend(): the sample index for the cursor's
\* time, and the data shown for it.
VisualizationFromBackend(backendData, t) ==
    LET currentTimeHours == Div(Num(t), Num(SecondsPerHour))
        timeIndex == FindClosestTimeIndex(backendData.time_hours,
                                          currentTimeHours)
    IN  [outcome |-> "shown",
         timeIndex |-> timeIndex,
         data |-> RealtimeDataFromBackend(backendData, timeIndex)]

\* The "fill in missing arrays" step for one series.
FillSeries(series, numTimePoints) ==
    IF Len(series) = 0
    THEN [i \in 1 .. numTimePoints |-> Num(0)]
    ELSE IF Len(series) < numTimePoints
    THEN LET lastValue == OrDefault(series[Len(series)], Num(0))
         IN  [i \in 1 .. numTimePoints |->
                IF i <= Len(series) THEN series[i] ELSE lastValue]
    ELSE series

\* convertToFrontendFormat(backendData)
ConvertToFrontendFormat(backendData) ==
    LET timeHours == backendData.time_hours
        effects == backendData.effects
        airQualityOf(t) == OrDefault(t.air_quality_index, Num(DefaultAirQuality))
        temperatureOf(t) == OrDefault(t.temperature_change_c, Num(0))
        debrisOf(t) ==
            Min2(Num(1), Div(OrDefault(t.dust_concentration_kg_m3, Num(0)),
                             Num(DustScale)))
        thermalOf(t) == OrDefault(t.thermal_radius_km, Num(0))
        damageOf(t) ==
            Min2(Num(MaxDamagePercent),
                 Div(MaxDamageRadius(t), Num(RadiusPerPercent)))
        atm == IF effects.atmospheric.present
               THEN effects.atmospheric.timeline ELSE <<>>
        extracted ==
            [blastRadius |-> <<>>,
             seismicIntensity |->
                IF effects.seismic.present
                THEN [i \in 1 .. Len(effects.seismic.intensity_grid) |->
                        MathMaxOf(effects.seismic.intensity_grid[i])]
                ELSE <<>>,
             thermalRadius |->
                IF effects.thermal.present
                THEN [i \in 1 .. Len(effects.thermal.timeline) |->
                        thermalOf(effects.thermal.timeline[i])]
                ELSE <<>>,
             casualties |-> <<>>,
             airQuality |-> [i \in 1 .. Len(atm) |-> airQualityOf(atm[i])],
             temperatureChange |-> [i \in 1 .. Len(atm) |-> temperatureOf(atm[i])],
             debrisCloud |-> [i \in 1 .. Len(atm) |-> debrisOf(atm[i])],
             infrastructureDamage |->
                IF effects.infrastructure.present
                THEN [i \in 1 .. Len(effects.infrastructure.timeline) |->
                        damageOf(effects.infrastructure.timeline[i])]
                ELSE <<>>]
    IN  [timeHours |-> timeHours,
         temporalEffects |->
            [k \in DOMAIN extracted |-> FillSeries(extracted[k], Len(timeHours))]]

\* The cursor's operations leave the visualiser's data alone.
VisualIdle == UNCHANGED visualVars /\ OthersIdle

Next ==
    \/ OnTimeChange /\ VisualIdle
    \/ \E s \in SpeedValues : SetSpeed(s) /\ VisualIdle
    \/ Play /\ VisualIdle
    \/ PauseCall /\ VisualIdle
    \/ TogglePlayback /\ VisualIdle
    \/ Reset /\ VisualIdle
    \/ Step /\ VisualIdle
    \/ \E d \in DurationInputs : SetDuration(d) /\ VisualIdle
    \/ \E p \in SliderValues : Scrub(p) /\ VisualIdle
    \/ \E id \in pending : AnimationFrame(id) /\ VisualIdle
    \/ Tick /\ VisualIdle

Spec == Init /\ [][Next]_vars

\* ------------------------------------------ the interpolator on its inputs
\* Marker times, in seconds, and the cursor times the interpolator is asked
\* about: on, between, before and after the markers.  NaN is not among
\* them: the cursor holds it only after a scenario without duration, which
\* has no temporalEffects either and never reaches the interpolator.
MarkerTimes == {h * SecondsPerHour : h \in 0 .. 2}
QueryTimes == {h * (SecondsPerHour \div 2) : h \in 0 .. 4}

\* Effect samples: whole and fractional.
SampleValues == {Num(0), Num(30), Rat(5, 2)}

\* Marker lists are kept in ascending time order; equal times may repeat.
MarkerLists ==
    {m \in UNION {[1 .. n -> MarkerTimes] : n \in 1 .. MaxMarkers} :
        \A i \in 1 .. Len(m) - 1 : m[i] <= m[i + 1]}

\* The casualties series as the scenario data may carry it: of the markers'
\* length, one sample short, or one sample long.
SeriesVariants(series) ==
    {series, SubSeq(series, 1, Len(series) - 1),
     Append(series, series[Len(series)])}

\* A scenario of the hardcoded data: every effect carries the samples
\* series, casualties the samples casualties.
HardcodedScenario(times, series, casualties) ==
    [markers |-> [i \in 1 .. Len(times) |-> [time |-> times[i]]],
     temporalEffects |->
        [k \in EffectKeys |-> IF k = "casualties" THEN casualties ELSE series]]

\* The cursor as its constructor leaves it, but for currentTime.
CursorAtRest ==
    /\ duration = DefaultDuration
    /\ isPlaying = FALSE
    /\ playbackSpeed = 1
    /\ animationId = Null
    /\ lastUpdateTime = 0
    /\ callbacks = <<>>
    /\ now = 0
    /\ pending = {}
    /\ nextId = 1
    /\ notified = <<>>
    /\ lastCall = "new"
    /\ wasPlaying = FALSE
    /\ lastDelta = 0
    /\ staleFrames = 0

InterpInit ==
    /\ CursorAtRest
    /\ LoaderAtRest
    /\ PopulationAtRest
    /\ AsteroidsAtRest
    /\ currentTime \in QueryTimes
    /\ \E times \in MarkerLists :
          \E series \in [1 .. Len(times) -> SampleValues] :
             \E casualties \in SeriesVariants(series) :
                scenario = HardcodedScenario(times, series, casualties)
    /\ interpolatedData = Unset
    /\ currentBackendData = Unset
    /\ frontendFormat = Unset
    /\ realtimeData = Unset

\* The cursor moves to another time; what was interpolated is out of date.
TimeChange(t) ==
    /\ t # currentTime
    /\ currentTime' = t
    /\ interpolatedData' = Unset
    /\ UNCHANGED <<timelineVars, scenario, currentBackendData, frontendFormat,
                   realtimeData>>

\* this.interpolateTemporalData(this.timeline.currentTime, scenario)
InterpolateCall ==
    /\ interpolatedData' =
          [outcome |-> "snapshot",
           data |-> InterpolateTemporalData(currentTime, scenario)]
    /\ UNCHANGED <<currentTime, timelineVars, scenario, currentBackendData,
                   frontendFormat, realtimeData>>

InterpNext ==
    \/ \E t \in QueryTimes : TimeChange(t) /\ OthersIdle
    \/ InterpolateCall /\ OthersIdle

SpecInterp == InterpInit /\ [][InterpNext]_vars

\* --------------------------------------------- the backend path on its inputs
\* Sample times of a payload, in hours, ascending.
SampleHours == 0 .. 2
TimeHoursLists ==
    {th \in UNION {[1 .. n -> SampleHours] : n \in 1 .. MaxTimePoints} :
        \A i \in 1 .. Len(th) - 1 : th[i] < th[i + 1]}

\* The sample tables below are read from entry 1 or from entry 2 on.
TableShifts == 0 .. 1

\* The intensities at the three distances of row i of a payload's grid.
IntensityRow(i) == [j \in 1 .. 3 |-> Num(((i * j) % 4) + 1)]

\* Entry i of a payload's thermal, atmospheric and infrastructure
\* timelines; some fields are 0 in some entries.
ThermalEntry(i) == [thermal_radius_km |-> Num((i % 3) * 10)]
AtmosphericEntry(i) ==
    [air_quality_index |-> Num((i % 2) * 120),
     temperature_change_c |-> Num(i - 2),
     dust_concentration_kg_m3 |-> Num(i * 600000)]
InfrastructureEntry(i) ==
    [severe_damage_radius_km |-> Num(5 * i),
     moderate_damage_radius_km |-> Num((i % 2) * 400),
     light_damage_radius_km |-> Num(((i + 1) % 2) * 1500)]

\* An effect family of a payload: absent, or present with a timeline of
\* any length from 0 to one more than time_hours.
TimelineLengths(numTimePoints) == 0 .. numTimePoints + 1

\* A length of -1 stands for an absent family.
BackendPayload(timeHours, shift, seismicLen, atmLen, thermalLen, infraLen) ==
    [time_hours |-> timeHours,
     effects |->
        [seismic |->
            [present |-> seismicLen >= 0,
             intensity_grid |->
                [i \in 1 .. seismicLen |-> IntensityRow(i + shift)]],
         atmospheric |->
            [present |-> atmLen >= 0,
             timeline |-> [i \in 1 .. atmLen |-> AtmosphericEntry(i + shift)]],
         thermal |->
            [present |-> thermalLen >= 0,
             timeline |-> [i \in 1 .. thermalLen |-> ThermalEntry(i + shift)]],
         infrastructure |->
            [present |-> infraLen >= 0,
             timeline |->
                [i \in 1 .. infraLen |-> InfrastructureEntry(i + shift)]]]]

\* loadScenarioFromBackend has stored a payload; setDuration has put the
\* cursor at 0.
BackendInit ==
    /\ CursorAtRest
    /\ LoaderAtRest
    /\ PopulationAtRest
    /\ AsteroidsAtRest
    /\ currentTime = 0
    /\ scenario = Unset
    /\ interpolatedData = Unset
    /\ \E timeHours \in TimeHoursLists : \E shift \in TableShifts :
          LET lengths == {-1} \cup TimelineLengths(Len(timeHours))
          IN  \E seismicLen \in lengths : \E atmLen \in lengths :
              \E thermalLen \in lengths : \E infraLen \in lengths :
                 currentBackendData =
                    [outcome |-> "loaded",
                     temporal_effects |->
                        BackendPayload(timeHours, shift, seismicLen, atmLen,
                                       thermalLen, infraLen)]
    /\ frontendFormat = Unset
    /\ realtimeData = Unset

\* updateVisualization() on the backend path, run by loadScenarioFromBackend
\* and, as the cursor's observer, at every change of currentTime to t.
UpdateVisualizationFromBackend(t) ==
    /\ currentBackendData.outcome = "loaded"
    /\ currentTime' = t
    /\ realtimeData' =
          VisualizationFromBackend(currentBackendData.temporal_effects, t)
    /\ UNCHANGED <<timelineVars, scenario, interpolatedData,
                   currentBackendData, frontendFormat>>

\* this.api.convertToFrontendFormat(backendData)
ConvertCall ==
    /\ currentBackendData.outcome = "loaded"
    /\ frontendFormat' =
          [outcome |-> "converted",
           data |-> ConvertToFrontendFormat(currentBackendData.temporal_effects)]
    /\ UNCHANGED <<currentTime, timelineVars, scenario, interpolatedData,
                   currentBackendData, realtimeData>>

BackendNext ==
    \/ \E t \in QueryTimes : UpdateVisualizationFromBackend(t) /\ OthersIdle
    \/ ConvertCall /\ OthersIdle

SpecBackend == BackendInit /\ [][BackendNext]_vars


\* ----------------------------------- the closest sample on arbitrary times
\* time_hours as a response may carry it: in any order, with repeats.
AnyTimeHours == UNION {[1 .. n -> SampleHours] : n \in 1 .. MaxHours}

\* Cursor times from the first sample hour to beyond the last one, in half
\* hours.
TargetTimes == {h * (SecondsPerHour \div 2) : h \in 0 .. 6}

ClosestInit ==
    /\ CursorAtRest
    /\ LoaderAtRest
    /\ PopulationAtRest
    /\ AsteroidsAtRest
    /\ currentTime = 0
    /\ scenario = Unset
    /\ interpolatedData = Unset
    /\ \E timeHours \in AnyTimeHours :
          currentBackendData =
             [outcome |-> "loaded",
              temporal_effects |-> BackendPayload(timeHours, 0, -1, -1, -1, -1)]
    /\ frontendFormat = Unset
    /\ realtimeData = Unset

ClosestNext ==
    \E t \in TargetTimes : UpdateVisualizationFromBackend(t) /\ OthersIdle

SpecClosest == ClosestInit /\ [][ClosestNext]_vars

\* ------------------------------------------------------ the scenario loads
\* The keys of scenarioMetadata, and an id that is not one of them.
ScenarioIds == {"tunguska", "chelyabinsk", "chicxulub", "hypothetical"}
LoadInputs == ScenarioIds \cup {"unknown"}

\* metadata.backendParams.scenario
BackendParams(scenarioId) ==
    CASE scenarioId \in {"tunguska", "chelyabinsk"} -> "small"
      [] scenarioId = "chicxulub" -> "large"
      [] OTHER -> "medium"

\* time_hours of the sample scenario the backend returns for a size.
SampleTimeHours(size) ==
    CASE size = "small" -> <<0, 1>>
      [] size = "medium" -> <<0, 1, 2>>
      [] OTHER -> <<0, 2, 4>>

\* backendScenario.temporal_effects of the response to a load of scenarioId.
SampleScenario(scenarioId) ==
    LET timeHours == SampleTimeHours(BackendParams(scenarioId))
        n == Len(timeHours)
    IN  BackendPayload(timeHours, 0, n, n, n, n)

\* Math.max(...timeHours) * 3600
DurationOf(timeHours) ==
    SecondsPerHour *
        (CHOOSE h \in {timeHours[i] : i \in 1 .. Len(timeHours)} :
            \A i \in 1 .. Len(timeHours) : timeHours[i] <= h)

\* What a load step tells of itself.
LoadStep(call, scenarioId, backendRequest, hardcoded, durationSet, durationArg) ==
    [call |-> call, scenarioId |-> scenarioId,
     afterFailure |-> failedLoads # {},
     backendRequest |-> backendRequest, hardcoded |-> hardcoded,
     durationSet |-> durationSet, durationArg |-> durationArg]

\* loadScenarioFromHardcodedData(scenarioId). impactScenarios is
\* scenarioMetadata, whose entries have neither location nor duration:
\* map.setView(undefined, zoom) is Leaflet's to answer, by throwing or by
\* returning, and setDuration is handed undefined.
LoadScenarioFromHardcodedData(scenarioId, setViewThrows) ==
    IF scenarioId \notin ScenarioIds
    THEN UNCHANGED <<currentTime, timelineVars, visualVars, currentScenario>>
    ELSE /\ currentScenario' = scenarioId
         /\ currentBackendData' = Unset
         /\ UNCHANGED <<scenario, interpolatedData, frontendFormat, realtimeData>>
         /\ IF setViewThrows
            THEN UNCHANGED <<currentTime, timelineVars>>
            ELSE SetDuration(NaN)

\* The catch block without "this.useBackendData = false".
FlagKept(flag) == flag

\* The catch block of loadScenarioFromBackend: this.useBackendData = false
UseBackendAfterFailure(flag) == FALSE

\* loadScenario(scenarioId), up to the await of the backend's response or,
\* on the hardcoded path, to its end.
LoadScenario(scenarioId) ==
    /\ Len(requested) < MaxLoads
    /\ requested' = Append(requested, scenarioId)
    /\ IF useBackendData
       THEN IF scenarioId \in ScenarioIds
            THEN /\ requests' = requests \cup
                       {[n |-> Len(requested) + 1, scenarioId |-> scenarioId]}
                 /\ lastLoad' = LoadStep("loadScenario", scenarioId, TRUE,
                                         "none", FALSE, 0)
                 /\ UNCHANGED <<currentTime, timelineVars, visualVars,
                                currentScenario, useBackendData, failedLoads>>
            ELSE /\ useBackendData' = UseBackendAfterFailure(useBackendData)
                 /\ failedLoads' = failedLoads \cup {scenarioId}
                 /\ LoadScenarioFromHardcodedData(scenarioId, FALSE)
                 /\ lastLoad' = LoadStep("failure", scenarioId, FALSE,
                                         scenarioId, FALSE, 0)
                 /\ UNCHANGED requests
       ELSE /\ \E setViewThrows \in BOOLEAN :
                 /\ LoadScenarioFromHardcodedData(scenarioId, setViewThrows)
                 /\ lastLoad' = LoadStep("loadScenario", scenarioId, FALSE,
                                         scenarioId,
                                         scenarioId \in ScenarioIds
                                            /\ ~setViewThrows, NaN)
            /\ UNCHANGED <<requests, useBackendData, failedLoads>>

\* The response to request r arrives and loadScenarioFromBackend runs on to
\* its end.
ResponseArrives(r) ==
    LET payload == SampleScenario(r.scenarioId)
        d == DurationOf(payload.time_hours)
    IN  /\ requests' = requests \ {r}
        /\ currentBackendData' =
              [outcome |-> "loaded", temporal_effects |-> payload]
        /\ currentScenario' = r.scenarioId
        /\ SetDuration(d)
        /\ realtimeData' = VisualizationFromBackend(payload, 0)
        /\ lastLoad' = LoadStep("response", r.scenarioId, FALSE, "none", TRUE, d)
        /\ UNCHANGED <<scenario, interpolatedData, frontendFormat,
                       useBackendData, requested, failedLoads>>

\* The request r is rejected, or its response makes the try block throw,
\* before line 72 or after setDuration: the catch block runs.
ResponseFails(r) ==
    LET d == DurationOf(SampleScenario(r.scenarioId).time_hours)
    IN  /\ requests' = requests \ {r}
        /\ useBackendData' = UseBackendAfterFailure(useBackendData)
        /\ failedLoads' = failedLoads \cup {r.scenarioId}
        /\ \E afterSetDuration \in BOOLEAN, setViewThrows \in BOOLEAN :
              IF afterSetDuration /\ setViewThrows
              THEN /\ currentScenario' = r.scenarioId
                   /\ currentBackendData' = Unset
                   /\ SetDuration(d)
                   /\ lastLoad' = LoadStep("failure", r.scenarioId, FALSE,
                                           r.scenarioId, TRUE, d)
                   /\ UNCHANGED <<scenario, interpolatedData, frontendFormat,
                                  realtimeData>>
              ELSE /\ LoadScenarioFromHardcodedData(r.scenarioId, setViewThrows)
                   /\ lastLoad' = LoadStep("failure", r.scenarioId, FALSE,
                                           r.scenarioId, ~setViewThrows, NaN)
        /\ UNCHANGED requested

LoadInit ==
    /\ CursorAtRest
    /\ currentTime = 0
    /\ scenario = Unset
    /\ interpolatedData = Unset
    /\ currentBackendData = Unset
    /\ frontendFormat = Unset
    /\ realtimeData = Unset
    /\ LoaderAtRest
    /\ PopulationAtRest
    /\ AsteroidsAtRest

LoadNext ==
    \/ \E scenarioId \in LoadInputs :
          LoadScenario(scenarioId) /\ PopulationIdle /\ AsteroidIdle
    \/ \E r \in requests : ResponseArrives(r) /\ PopulationIdle /\ AsteroidIdle
    \/ \E r \in requests : ResponseFails(r) /\ PopulationIdle /\ AsteroidIdle

SpecLoad == LoadInit /\ [][LoadNext]_vars

\* --------------------------------------------------- the globe's asteroids
\* The asteroid spawnAsteroidToTarget creates: userData carries a
\* targetPoint, and neither isAnimatingToTarget nor wasDeflected yet.
NewAsteroid(id) ==
    [id |-> id, targetPoint |-> TRUE, near |-> FALSE,
     isAnimatingToTarget |-> FALSE, wasDeflected |-> FALSE, spared |-> FALSE]

\* The check of line 485 left out.
DeflectionIgnored(asteroid) == FALSE

\* if (asteroid.userData.wasDeflected)
WasDeflected(asteroid) == asteroid.wasDeflected

\* this.asteroids.splice(index, 1)
Splice(list, index) ==
    [j \in 1 .. Len(list) - 1 |-> IF j < index THEN list[j] ELSE list[j + 1]]

\* handleImpact(asteroid, index), as the record of the call.
HandleImpact(asteroid) ==
    [id |-> asteroid.id, wasDeflected |-> asteroid.wasDeflected,
     isAnimatingToTarget |-> asteroid.isAnimatingToTarget]

\* The loop of updateAsteroids from index i down. nearIds are the asteroids
\* whose new position is within 4 of the centre, doneIds those whose
\* approach has reached progress 0.8. "return" at a deflected asteroid ends
\* the loop.
RECURSIVE UpdateFrom(_, _, _, _, _)
UpdateFrom(i, list, hits, nearIds, doneIds) ==
    IF i = 0 THEN [asteroids |-> list, impacts |-> hits]
    ELSE LET asteroid == [list[i] EXCEPT !.near = list[i].id \in nearIds]
             moved == [list EXCEPT ![i] = asteroid]
         IN  IF ~asteroid.near
             THEN UpdateFrom(i - 1, moved, hits, nearIds, doneIds)
             ELSE IF WasDeflected(asteroid)
             THEN [asteroids |-> [moved EXCEPT ![i].spared = TRUE],
                   impacts |-> hits]
             ELSE IF asteroid.targetPoint
             THEN IF ~asteroid.isAnimatingToTarget
                  THEN UpdateFrom(i - 1,
                                  [moved EXCEPT ![i].isAnimatingToTarget = TRUE],
                                  hits, nearIds, doneIds)
                  ELSE IF asteroid.id \in doneIds
                  THEN UpdateFrom(i - 1, Splice(moved, i),
                                  hits \cup {HandleImpact(asteroid)},
                                  nearIds, doneIds)
                  ELSE UpdateFrom(i - 1, moved, hits, nearIds, doneIds)
             ELSE UpdateFrom(i - 1, Splice(moved, i),
                             hits \cup {HandleImpact(asteroid)},
                             nearIds, doneIds)

\* DefenseManager.update(): with a spacecraft in the scene, the first
\* asteroid not yet deflected that it has come close to (hitIds) is
\* deflected by triggerDeflection, and the spacecraft is removed.
DefenseUpdate(list, craft, hitIds) ==
    LET struck == {i \in 1 .. Len(list) :
                     ~list[i].wasDeflected /\ list[i].id \in hitIds}
    IN  IF craft /\ struck # {}
        THEN LET i == CHOOSE j \in struck : \A k \in struck : j <= k
             IN  [asteroids |-> [list EXCEPT ![i].wasDeflected = TRUE],
                  spacecraft |-> FALSE]
        ELSE [asteroids |-> list, spacecraft |-> craft]

\* spawnAsteroidToTarget(targetPoint): clearAsteroids(), the new asteroid
\* is pushed, and launchSpacecraft puts a spacecraft in the scene if the
\* defense is enabled.
SpawnAsteroidToTarget ==
    /\ nextAsteroid <= MaxAsteroids
    /\ asteroids' = <<NewAsteroid(nextAsteroid)>>
    /\ nextAsteroid' = nextAsteroid + 1
    /\ spacecraft' = (spacecraft \/ isDefenseEnabled)
    /\ UNCHANGED <<isDefenseEnabled, impacts>>

\* clearAsteroids()
ClearAsteroids ==
    /\ asteroids # <<>>
    /\ asteroids' = <<>>
    /\ UNCHANGED <<nextAsteroid, isDefenseEnabled, spacecraft, impacts>>

\* toggleDefense(): switched on with an asteroid in flight that is not
\* deflected, it launches a spacecraft.
ToggleDefense ==
    /\ isDefenseEnabled' = ~isDefenseEnabled
    /\ spacecraft' =
          (\/ spacecraft
           \/ /\ isDefenseEnabled'
              /\ \E i \in 1 .. Len(asteroids) : ~asteroids[i].wasDeflected)
    /\ UNCHANGED <<asteroids, nextAsteroid, impacts>>

\* GlobeApp.animate(), one animation frame: updateAsteroids(), then
\* defenseManager.update().
AnimateGlobe(nearIds, doneIds, hitIds) ==
    LET after == UpdateFrom(Len(asteroids), asteroids, impacts, nearIds, doneIds)
        defended == DefenseUpdate(after.asteroids, spacecraft, hitIds)
    IN  /\ asteroids' = defended.asteroids
        /\ spacecraft' = defended.spacecraft
        /\ impacts' = after.impacts
        /\ UNCHANGED <<nextAsteroid, isDefenseEnabled>>

AsteroidInit ==
    /\ CursorAtRest
    /\ currentTime = 0
    /\ scenario = Unset
    /\ interpolatedData = Unset
    /\ currentBackendData = Unset
    /\ frontendFormat = Unset
    /\ realtimeData = Unset
    /\ LoaderAtRest
    /\ PopulationAtRest
    /\ AsteroidsAtRest

\* The cursor, the visualiser and the population service take no part.
GlobeOnly ==
    UNCHANGED <<currentTime, timelineVars, visualVars, loadVars, populationVars>>

AsteroidNext ==
    \/ SpawnAsteroidToTarget /\ GlobeOnly
    \/ ClearAsteroids /\ GlobeOnly
    \/ ToggleDefense /\ GlobeOnly
    \/ LET ids == {asteroids[i].id : i \in 1 .. Len(asteroids)}
       IN  \E nearIds \in SUBSET ids, hitIds \in SUBSET ids :
              \E doneIds \in SUBSET nearIds :
                 AnimateGlobe(nearIds, doneIds, hitIds) /\ GlobeOnly

SpecAsteroid == AsteroidInit /\ [][AsteroidNext]_vars

\* --------------------------------------------------- the population service
\* Coordinates are in thousandths of a degree, distances in metres.
MaxLatitude == 90000
MaxLongitude == 180000
MetresPerKm == 1000
\* A thousandth of a degree of a great circle, in metres.
MetresPerMilliDegree == 111
\* The cache key carries the coordinates rounded to a hundredth of a degree.
RoundingStep == 10

\* The city reference rows: one city some 5 km east of the point (0, 0) and
\* one some 555 km east of it.
Cities ==
    <<[name |-> "near", lat |-> 0, lng |-> 45, population |-> 1000],
      [name |-> "far", lat |-> 0, lng |-> 5000, population |-> 50]>>

\* round(x, 2)
RoundCoord(x) == ((x + RoundingStep \div 2) \div RoundingStep) * RoundingStep

\* The great-circle distance of two points on the equator, or of two points
\* of which one is a pole.
GeoDistance(p, q) ==
    LET dLat == IF p.lat >= q.lat THEN p.lat - q.lat ELSE q.lat - p.lat
        dLng == IF p.lng >= q.lng THEN p.lng - q.lng ELSE q.lng - p.lng
        around == IF dLng > MaxLongitude THEN 2 * MaxLongitude - dLng ELSE dLng
    IN  MetresPerMilliDegree * (IF dLat = 0 THEN around ELSE dLat)

RECURSIVE SumOf(_)
SumOf(numbers) ==
    IF numbers = <<>> THEN 0 ELSE Head(numbers) + SumOf(Tail(numbers))

\* Validation that lets a radius of 0 and the coordinates just past the
\* ends of the ranges through.
InvalidBelowZero(center, radius_km) ==
    \/ radius_km < 0
    \/ center.lat < -MaxLatitude - 1 \/ center.lat > MaxLatitude + 1
    \/ center.lng < -MaxLongitude - 1 \/ center.lng > MaxLongitude + 1

\* ValidationError: radius_km <= 0, or the centre out of range.
Invalid(center, radius_km) ==
    \/ radius_km <= 0
    \/ center.lat < -MaxLatitude \/ center.lat > MaxLatitude
    \/ center.lng < -MaxLongitude \/ center.lng > MaxLongitude

\* The key of the cache: (rounded lat, rounded lng, radius).
Key(center, radius_km) ==
    <<RoundCoord(center.lat), RoundCoord(center.lng), radius_km>>

\* The population within radius_km of a centre: every city is visited, and
\* those within the radius are reported with their distance.
PopulationWithin(center, radius_km) ==
    LET within(city) == GeoDistance(center, city) <= radius_km * MetresPerKm
        affected == SelectSeq(Cities, within)
    IN  [outcome |-> "ok",
         total_population |->
            SumOf([i \in 1 .. Len(affected) |-> affected[i].population]),
         affected_cities |->
            [i \in 1 .. Len(affected) |->
                [name |-> affected[i].name,
                 population |-> affected[i].population,
                 distance |-> GeoDistance(center, affected[i])]],
         city_count |-> Len(affected)]

\* The result computed from the arguments as given, not from the key.
ComputeUnrounded(center, radius_km) == PopulationWithin(center, radius_km)

\* The result computed on a cache miss: the cached function is handed the
\* key, the rounded centre and the radius.
Compute(center, radius_km) ==
    LET key == Key(center, radius_km)
    IN  PopulationWithin([lat |-> key[1], lng |-> key[2]], key[3])

\* The place of a key in the cache, 0 if it is not there.
Lookup(entries, key) ==
    IF \E i \in 1 .. Len(entries) : entries[i].key = key
    THEN CHOOSE i \in 1 .. Len(entries) : entries[i].key = key
    ELSE 0

\* A hit that leaves the entry where it is.
Untouched(entries, i) == entries

\* A hit is a use: the entry becomes the most recent one.
Touch(entries, i) ==
    [j \in 1 .. Len(entries) |->
        IF j < i THEN entries[j]
        ELSE IF j < Len(entries) THEN entries[j + 1] ELSE entries[i]]

\* A new entry; a full cache first drops its least recent one.
Insert(entries, entry) ==
    IF Len(entries) >= CacheCapacity
    THEN Append(Tail(entries), entry)
    ELSE Append(entries, entry)

ValidationError == [outcome |-> "ValidationError"]

\* population_in_radius(center, radius_km): validation, then the cache;
\* a hit returns the stored result, a miss computes and stores one.
PopulationInRadius(center, radius_km) ==
    LET key == Key(center, radius_km)
        i == Lookup(cache, key)
        computed == Compute(center, radius_km)
        result == IF Invalid(center, radius_km) THEN ValidationError
                  ELSE IF i # 0 THEN cache[i].result ELSE computed
        n == query.n + 1
    IN  /\ query.n < MaxQueries
        /\ answer' = result
        /\ query' = [op |-> "population_in_radius", center |-> center,
                     radius_km |-> radius_km, n |-> n,
                     hit |-> ~Invalid(center, radius_km) /\ i # 0]
        /\ returned' = returned \cup
              {[center |-> center, radius_km |-> radius_km, result |-> result]}
        /\ IF Invalid(center, radius_km)
           THEN UNCHANGED <<cache, lastUse>>
           ELSE /\ cache' = IF i # 0 THEN Touch(cache, i)
                            ELSE Insert(cache, [key |-> key, result |-> computed])
                /\ lastUse' = [k \in DOMAIN lastUse \cup {key} |->
                                  IF k = key THEN n ELSE lastUse[k]]

\* The queries that filled the cache before: the point (0, 0) with the
\* radii 5 km, 6 km and so on, in that order.
EarlierQuery(i) == [center |-> [lat |-> 0, lng |-> 0], radius_km |-> i + 4]

\* The service after those queries, the cache full.
CacheFull ==
    LET keyOf(i) == Key(EarlierQuery(i).center, EarlierQuery(i).radius_km)
        resultOf(i) == Compute(EarlierQuery(i).center, EarlierQuery(i).radius_km)
    IN  /\ cache = [i \in 1 .. CacheCapacity |->
                      [key |-> keyOf(i), result |-> resultOf(i)]]
        /\ answer = resultOf(CacheCapacity)
        /\ query = [op |-> "none", n |-> 0]
        /\ returned = {[center |-> EarlierQuery(i).center,
                        radius_km |-> EarlierQuery(i).radius_km,
                        result |-> resultOf(i)] : i \in 1 .. CacheCapacity}
        /\ lastUse = [k \in {keyOf(i) : i \in 1 .. CacheCapacity} |->
                         k[3] - 4 - CacheCapacity]

\* Centres and radii asked for: cached and new keys, two centres that round
\* to one key, the ends of the ranges and what lies past them.
PopulationQueries ==
    {[center |-> [lat |-> 0, lng |-> 0], radius_km |-> 5],
     [center |-> [lat |-> 0, lng |-> 4], radius_km |-> 5],
     [center |-> [lat |-> 0, lng |-> 0], radius_km |-> 600],
     [center |-> [lat |-> 0, lng |-> 0], radius_km |-> 1],
     [center |-> [lat |-> MaxLatitude, lng |-> MaxLongitude], radius_km |-> 10],
     [center |-> [lat |-> MaxLatitude + 1, lng |-> 0], radius_km |-> 10],
     [center |-> [lat |-> 0, lng |-> -MaxLongitude - 1], radius_km |-> 10],
     [center |-> [lat |-> 0, lng |-> 0], radius_km |-> 0]}

\* The cursor, the visualiser and the globe take no part.
ServiceOnly ==
    UNCHANGED <<currentTime, timelineVars, visualVars, loadVars, asteroidVars>>

PopulationInit ==
    /\ CursorAtRest
    /\ currentTime = 0
    /\ scenario = Unset
    /\ interpolatedData = Unset
    /\ currentBackendData = Unset
    /\ frontendFormat = Unset
    /\ realtimeData = Unset
    /\ LoaderAtRest
    /\ AsteroidsAtRest
    /\ PopulationAtRest \/ CacheFull

PopulationNext ==
    \E q \in PopulationQueries :
       PopulationInRadius(q.center, q.radius_km) /\ ServiceOnly

SpecPopulation == PopulationInit /\ [][PopulationNext]_vars

\* ------------------------------------------------------ casualties by zone
\* Damage zones a caller may hand over; lethality_rate is in percent.
ZoneTable ==
    {[zone_name |-> "crater", radius_km |-> 10, lethality_rate |-> 100],
     [zone_name |-> "severe", radius_km |-> 20, lethality_rate |-> 60],
     [zone_name |-> "blast", radius_km |-> 50, lethality_rate |-> 30],
     [zone_name |-> "thermal", radius_km |-> 600, lethality_rate |-> 10]}

\* Zone lists in any order without repeats, and lists that are refused:
\* the empty one, a radius of 0, a lethality above 1.
ZoneLists ==
    {zones \in UNION {[1 .. n -> ZoneTable] : n \in 1 .. MaxZones} :
        \A i, j \in 1 .. Len(zones) : i # j => zones[i] # zones[j]}
    \cup {<<>>,
          <<[zone_name |-> "none", radius_km |-> 0, lethality_rate |-> 100]>>,
          <<[zone_name |-> "over", radius_km |-> 10, lethality_rate |-> 150]>>}

\* Centres of impact: at a city, beside it, far from any.
ImpactCentres ==
    {[lat |-> 0, lng |-> 0], [lat |-> 0, lng |-> 5000],
     [lat |-> MaxLatitude, lng |-> 0]}

\* ValidationError: no zone, a radius that is not positive, a lethality
\* outside [0, 1].
InvalidZones(zones) ==
    \/ zones = <<>>
    \/ \E i \in 1 .. Len(zones) :
          \/ zones[i].radius_km <= 0
          \/ zones[i].lethality_rate < 0
          \/ zones[i].lethality_rate > 100

\* The zones that reach a distance.
Containing(zones, distance) ==
    {i \in 1 .. Len(zones) : distance <= zones[i].radius_km * MetresPerKm}

\* The first zone of the list that reaches the distance.
FirstContaining(zones, distance) ==
    CHOOSE i \in Containing(zones, distance) :
       \A j \in Containing(zones, distance) : i <= j

\* The zone applied to a city at a distance: of the zones that reach it,
\* the one with the smallest radius.
ZoneApplied(zones, distance) ==
    CHOOSE i \in Containing(zones, distance) :
       \A j \in Containing(zones, distance) :
          zones[i].radius_km <= zones[j].radius_km

\* The casualties of one city: its population at the lethality of the zone
\* applied to it, counted for that zone only.
CityCasualties(city, center, zones, zone) ==
    LET distance == GeoDistance(center, city)
    IN  IF Containing(zones, distance) # {}
           /\ ZoneApplied(zones, distance) = zone
        THEN (city.population * zones[zone].lethality_rate) \div 100
        ELSE 0

\* casualties_by_zone(center, zones) for a valid zone list.
Casualties(center, zones) ==
    LET ofZone(zone) ==
            SumOf([c \in 1 .. Len(Cities) |->
                     CityCasualties(Cities[c], center, zones, zone)])
        largest == CHOOSE i \in 1 .. Len(zones) :
                      \A j \in 1 .. Len(zones) :
                         zones[j].radius_km <= zones[i].radius_km
    IN  [outcome |-> "ok",
         total_casualties |-> SumOf([i \in 1 .. Len(zones) |-> ofZone(i)]),
         zones |->
            [i \in 1 .. Len(zones) |->
                [zone_label |-> zones[i].zone_name,
                 radius_km |-> zones[i].radius_km,
                 lethality_rate |-> zones[i].lethality_rate,
                 population_in_zone |->
                    PopulationWithin(center, zones[i].radius_km).total_population,
                 casualties |-> ofZone(i)]],
         total_affected_population |->
            PopulationWithin(center, zones[largest].radius_km).total_population]

\* casualties_by_zone(center, zones)
CasualtiesByZone(center, zones) ==
    /\ answer' = IF InvalidZones(zones) THEN ValidationError
                 ELSE Casualties(center, zones)
    /\ query' = [op |-> "casualties_by_zone", center |-> center,
                 zones |-> zones, n |-> query.n]
    /\ UNCHANGED <<cache, returned, lastUse>>

CasualtyInit ==
    /\ CursorAtRest
    /\ currentTime = 0
    /\ scenario = Unset
    /\ interpolatedData = Unset
    /\ currentBackendData = Unset
    /\ frontendFormat = Unset
    /\ realtimeData = Unset
    /\ LoaderAtRest
    /\ AsteroidsAtRest
    /\ PopulationAtRest

CasualtyNext ==
    \E center \in ImpactCentres, zones \in ZoneLists :
       CasualtiesByZone(center, zones) /\ ServiceOnly

SpecCasualties == CasualtyInit /\ [][CasualtyNext]_vars

\* ------------------------------------------------------------------ claims
\* An animation frame that finds the timeline playing: the advance.
AdvanceStep == isPlaying /\ \E id \in pending : AnimationFrame(id)

\* play, reset, step, scrub, or an advance while playing.
NotifyingStep ==
    \/ Play \/ Reset \/ Step \/ AdvanceStep
    \/ \E p \in SliderValues : Scrub(p)

\* pause or setDuration.
SilentStep ==
    \/ PauseCall
    \/ \E d \in DurationInputs : SetDuration(d)

\* The calls a notification of every observer with time t consists of.
EveryObserver(t) == [i \in 1 .. Len(callbacks) |-> <<callbacks[i], t>>]

\* C1: after any sequence of timeline operations the cursor satisfies
\* 0 <= current_time <= duration.
C1_CursorWithinDuration ==
    /\ ~IsNaN(currentTime)
    /\ ~IsNaN(duration)
    /\ 0 <= currentTime
    /\ currentTime <= duration

\* C2, as stated: an advance while PLAYING that does not reach the end adds
\* exactly e * speed_multiplier to current_time, e being the real seconds
\* elapsed, (now - lastUpdateTime) / 1000.
C2_AdvanceAddsElapsedTimesSpeed ==
    [][AdvanceStep /\ isPlaying' /\ ~IsNaN(currentTime)
         => /\ ~IsNaN(currentTime')
            /\ (currentTime' - currentTime) * MsPerSecond
                 = (now - lastUpdateTime) * playbackSpeed]_vars

\* C2, amended: an advance while PLAYING that does not reach the end adds
\* exactly e * speed_multiplier * 3600 to current_time (NaN stays NaN).
C2_AdvanceAddsElapsedHours ==
    [][AdvanceStep /\ isPlaying'
         => IF IsNaN(currentTime)
            THEN IsNaN(currentTime')
            ELSE /\ ~IsNaN(currentTime')
                 /\ (currentTime' - currentTime) * MsPerSecond
                      = (now - lastUpdateTime) * playbackSpeed * 3600]_vars

C2_Witness ==
    /\ lastCall = "advance"
    /\ isPlaying
    /\ lastDelta > 0
    /\ playbackSpeed = 2
    /\ currentTime = 2 * 3600

\* C3: an advance while PLAYING that brings current_time to or past duration
\* clamps it to duration, stops the timeline and schedules no further
\* advance; current_time then stays at duration until the next operation.
C3_EndOfTimeline ==
    /\ [][AdvanceStep
            /\ ~IsNaN(currentTime) /\ ~IsNaN(duration)
            /\ currentTime * MsPerSecond
                 + (now - lastUpdateTime) * playbackSpeed * 3600
                 >= duration * MsPerSecond
            => /\ currentTime' = duration
               /\ ~isPlaying'
               /\ animationId' = Null
               /\ nextId' = nextId
               /\ pending' \subseteq pending]_vars
    /\ [](lastCall = "advance" /\ ~isPlaying
            => currentTime = duration /\ animationId = Null)

C3_Witness ==
    /\ lastCall = "advance"
    /\ ~isPlaying
    /\ lastDelta > 0
    /\ currentTime = duration
    /\ staleFrames > 0

\* C4: an advance delivered while STOPPED leaves current_time, the play
\* state and the pending advances unchanged (the delivered frame is used
\* up, none is scheduled or cancelled) and notifies no observer.
C4_StaleAdvanceIsNoOp ==
    [][\A id \in pending : ~isPlaying /\ AnimationFrame(id)
         => /\ currentTime' = currentTime
            /\ isPlaying' = isPlaying
            /\ animationId' = animationId
            /\ lastUpdateTime' = lastUpdateTime
            /\ pending' = pending \ {id}
            /\ nextId' = nextId
            /\ notified' = <<>>]_vars

C4_Witness ==
    /\ staleFrames > 0
    /\ ~isPlaying
    /\ now > lastUpdateTime
    /\ currentTime < duration
    /\ Len(callbacks) > 0

C6_StepStopsOnlyAtEnd ==
    [][Step => isPlaying' = (isPlaying /\ currentTime' # duration)]_vars

\* C6, amended: step() always stops the timeline and cancels the advance it
\* had scheduled, whether or not the result equals duration; a step taken
\* while PLAYING whose result is below duration leaves it STOPPED.
C6_StepAlwaysStops ==
    [][Step
         => /\ ~isPlaying'
            /\ animationId' = Null
            /\ pending' = pending \ {animationId}]_vars

C6_Witness ==
    /\ lastCall = "step"
    /\ wasPlaying
    /\ ~isPlaying
    /\ ~IsNaN(currentTime)
    /\ currentTime < duration

C8_SetDurationAndResetRewind ==
    [][/\ \A d \in DurationInputs : SetDuration(d)
            => duration' = d /\ currentTime' = 0 /\ ~isPlaying'
       /\ Reset
            => duration' = duration /\ currentTime' = 0 /\ ~isPlaying']_vars

C8_Witness ==
    /\ lastCall = "setDuration"
    /\ wasPlaying
    /\ ~isPlaying
    /\ currentTime = 0
    /\ duration = 3600

\* C9: pause() stops a PLAYING timeline and cancels the advance it had
\* scheduled; after it, until the next play, step, scrub, reset or
\* setDuration, current_time does not change and no observer is notified,
\* whatever animation frames were requested before the pause.
C9_PauseHolds ==
    /\ [][PauseCall
            => ~isPlaying' /\ pending' = pending \ {animationId}]_vars
    /\ [](lastCall = "pause" => ~isPlaying /\ animationId = Null)
    /\ [][lastCall = "pause" /\ lastCall' = "pause"
            => currentTime' = currentTime /\ notified' = <<>>]_vars

C9_Witness ==
    /\ lastCall = "pause"
    /\ wasPlaying
    /\ staleFrames > 0
    /\ now > lastUpdateTime
    /\ Len(callbacks) > 0

\* C10, as stated: every mutating operation (setDuration, play, pause,
\* reset, step, advance while PLAYING, scrub; counted here only when it
\* changes current_time, duration or the play state) notifies every
\* registered observer with the current_time that holds after it.
C10_EveryOperationNotifies ==
    [][(NotifyingStep \/ SilentStep)
         /\ <<currentTime, duration, isPlaying>>'
              # <<currentTime, duration, isPlaying>>
         => notified' = EveryObserver(currentTime')]_vars

\* C10, amended: play, reset, step, scrub and an advance while PLAYING each
\* notify every registered observer once, in registration order, with the
\* current_time that holds after the operation; setDuration and pause
\* notify no observer.
C10_CursorOperationsNotify ==
    [][/\ NotifyingStep => notified' = EveryObserver(currentTime')
       /\ SilentStep => notified' = <<>>]_vars

C10_Witness ==
    /\ lastCall = "advance"
    /\ lastDelta > 0
    /\ Len(callbacks) = 2
    /\ notified = <<<<1, currentTime>>, <<2, currentTime>>>>
    /\ currentTime = 3600

\* Some registered observer throws when it is called.
SomeObserverThrows == \E i \in 1 .. Len(callbacks) : Throws(callbacks[i])

\* C11: when a registered observer throws during a notification, every
\* registered observer, the ones after it included, is still called once, in
\* registration order, with the same new currentTime; and the operation
\* runs to its end as if nothing had been thrown: the cursor holds the time
\* the observers were handed, observers stay registered, and an advance that
\* leaves the timeline playing has requested its next frame.
C11_ThrowingObserverIsIsolated ==
    [][(NotifyingStep /\ SomeObserverThrows)
          => /\ Len(notified') = Len(callbacks)
             /\ \A i \in 1 .. Len(callbacks) :
                    notified'[i] = <<callbacks[i], currentTime'>>
             /\ callbacks' = callbacks
             /\ isPlaying' => animationId' \in pending']_vars

\* An advance has run with two observers registered, the first of them
\* throwing; both were called with the new time, and the next frame is
\* requested.
C11_Witness ==
    /\ lastCall = "advance"
    /\ Len(callbacks) = 2
    /\ Throws(callbacks[1])
    /\ notified = <<<<callbacks[1], currentTime>>, <<callbacks[2], currentTime>>>>
    /\ currentTime > 0
    /\ isPlaying
    /\ animationId \in pending

\* ------------------------------------------------ claims: the interpolator
\* The interpolator has returned a snapshot for currentTime.
Snapshot == interpolatedData.outcome = "snapshot"

NumMarkers == Len(scenario.markers)
MarkerTime(i) == scenario.markers[i].time
Series(k) == scenario.temporalEffects[k]

\* Every effect series has one sample per marker.
SeriesMatchMarkers == \A k \in EffectKeys : Len(Series(k)) = NumMarkers

UnroundedKeys == EffectKeys \ RoundedKeys

\* currentTime lies in the interval between markers i and i + 1.
InInterval(t, i) == MarkerTime(i) <= t /\ t <= MarkerTime(i + 1)

\* The adjacent pairs around currentTime, and the first of them.
Brackets == {i \in 1 .. NumMarkers - 1 : InInterval(currentTime, i)}
FirstBracket == CHOOSE i \in Brackets : \A j \in Brackets : i <= j

\* series[i] + p * (series[i+1] - series[i]),
\* p = (T - markers[i].time) / (markers[i+1].time - markers[i].time)
Linear(k, i) ==
    LET p == Div(Num(currentTime - MarkerTime(i)),
                 Num(MarkerTime(i + 1) - MarkerTime(i)))
    IN  Add(Series(k)[i], Mul(p, Sub(Series(k)[i + 1], Series(k)[i])))

\* C12: for every T at or before the first marker time the snapshot holds
\* the first sample of each series, and for every T at or after the last
\* marker time it holds the last sample of each series.
C12_ClampedToFirstAndLast ==
    (Snapshot /\ SeriesMatchMarkers) =>
        /\ currentTime <= MarkerTime(1) =>
              \A k \in EffectKeys : interpolatedData.data[k] = Series(k)[1]
        /\ currentTime >= MarkerTime(NumMarkers) =>
              \A k \in EffectKeys :
                 interpolatedData.data[k] = Series(k)[NumMarkers]

\* C12, amended: for every T at or before the first marker time the
\* snapshot holds the first sample of each series; for every T at or after
\* the last marker time, and after the first, it holds the last sample.
C12_ClampedFirstThenLast ==
    (Snapshot /\ SeriesMatchMarkers) =>
        /\ currentTime <= MarkerTime(1) =>
              \A k \in EffectKeys : interpolatedData.data[k] = Series(k)[1]
        /\ (currentTime >= MarkerTime(NumMarkers)
               /\ currentTime > MarkerTime(1)) =>
              \A k \in EffectKeys :
                 interpolatedData.data[k] = Series(k)[NumMarkers]

\* A time after the last of several markers: the snapshot holds the last
\* sample, which is not the first.
C12_Witness ==
    /\ Snapshot
    /\ SeriesMatchMarkers
    /\ NumMarkers > 1
    /\ currentTime > MarkerTime(NumMarkers)
    /\ Series("blastRadius")[NumMarkers] # Series("blastRadius")[1]
    /\ interpolatedData.data.blastRadius = Series("blastRadius")[NumMarkers]

\* C13: for T strictly inside the marker range the snapshot holds, for the
\* first adjacent pair of markers around T, series[i] + p * (series[i+1] -
\* series[i]) with p the fraction of the interval elapsed (rounded to the
\* nearest integer for the effects the interpolator rounds); with markers
\* at 0 and 3600 and blastRadius = [0, 30] the value at 1800 is 15.
C13_LinearBetweenFirstPair ==
    /\ (/\ Snapshot
        /\ SeriesMatchMarkers
        /\ MarkerTime(1) < currentTime
        /\ currentTime < MarkerTime(NumMarkers)) =>
          \A k \in EffectKeys :
             interpolatedData.data[k] =
                IF k \in RoundedKeys
                THEN MathRound(Linear(k, FirstBracket))
                ELSE Linear(k, FirstBracket)
    /\ (/\ Snapshot
        /\ scenario.markers = <<[time |-> 0], [time |-> 3600]>>
        /\ Series("blastRadius") = <<Num(0), Num(30)>>
        /\ currentTime = 1800) =>
          interpolatedData.data.blastRadius = Num(15)

\* The claim's example: markers at 0 and 3600, blastRadius [0, 30], the
\* value 15 at time 1800.
C13_Witness ==
    /\ Snapshot
    /\ SeriesMatchMarkers
    /\ scenario.markers = <<[time |-> 0], [time |-> 3600]>>
    /\ Series("blastRadius") = <<Num(0), Num(30)>>
    /\ currentTime = 1800
    /\ interpolatedData.data.blastRadius = Num(15)

\* x lies between a and b, in either order, ends included.
Between(x, a, b) ==
    \/ LessEq(a, x) /\ LessEq(x, b)
    \/ LessEq(b, x) /\ LessEq(x, a)

\* From time t to the later time u the value of effect k moves from
\* series[i] towards series[i + 1], never back.
MovesTowards(k, i, t, u) ==
    LET x == InterpolateTemporalData(t, scenario)[k]
        y == InterpolateTemporalData(u, scenario)[k]
    IN  IF LessEq(Series(k)[i], Series(k)[i + 1])
        THEN LessEq(x, y)
        ELSE LessEq(y, x)

\* No two markers carry the time t.
NotDuplicated(t) ==
    Cardinality({j \in 1 .. NumMarkers : MarkerTime(j) = t}) <= 1

\* C14: for every T with markers[i].time <= T <= markers[i+1].time, the
\* value of every unrounded effect lies between series[i] and series[i+1],
\* ends included, and moves monotonically from the one to the other as T
\* increases across the interval.
C14_NoOvershoot ==
    (Snapshot /\ SeriesMatchMarkers) =>
        \A i \in Brackets : \A k \in UnroundedKeys :
           /\ Between(interpolatedData.data[k], Series(k)[i], Series(k)[i + 1])
           /\ \A u \in QueryTimes :
                 (currentTime <= u /\ InInterval(u, i)) =>
                    MovesTowards(k, i, currentTime, u)

\* C14, amended: the same, for the times T of the interval that are not a
\* marker time carried by two or more markers.
C14_NoOvershootOffDuplicates ==
    (Snapshot /\ SeriesMatchMarkers /\ NotDuplicated(currentTime)) =>
        \A i \in Brackets : \A k \in UnroundedKeys :
           /\ Between(interpolatedData.data[k], Series(k)[i], Series(k)[i + 1])
           /\ \A u \in QueryTimes :
                 (currentTime <= u /\ InInterval(u, i) /\ NotDuplicated(u)) =>
                    MovesTowards(k, i, currentTime, u)

\* A time strictly inside an interval whose samples differ: the value lies
\* strictly between them.
C14_Witness ==
    /\ Snapshot
    /\ SeriesMatchMarkers
    /\ \E i \in Brackets :
          /\ MarkerTime(i) < currentTime
          /\ currentTime < MarkerTime(i + 1)
          /\ interpolatedData.data.blastRadius # Series("blastRadius")[i]
          /\ interpolatedData.data.blastRadius # Series("blastRadius")[i + 1]
          /\ Between(interpolatedData.data.blastRadius,
                     Series("blastRadius")[i], Series("blastRadius")[i + 1])

\* The zero-width intervals at currentTime: adjacent markers that both
\* carry it.
ZeroWidthAt == {i \in 1 .. NumMarkers - 1 :
                   MarkerTime(i) = currentTime /\ MarkerTime(i + 1) = currentTime}

\* The first marker that carries currentTime.
FirstMarkerAt ==
    CHOOSE i \in 1 .. NumMarkers :
        /\ MarkerTime(i) = currentTime
        /\ \A j \in 1 .. i - 1 : MarkerTime(j) # currentTime

\* The interpolator gets past both clamps and divides by timeDiff.
Divides ==
    /\ ~AtOrBeforeFirst(currentTime, scenario.markers)
    /\ ~AtOrAfterLast(currentTime, scenario.markers)

\* timeDiff, for the pair of markers the interpolator selects.
SelectedTimeDiff ==
    LET pair == BracketIndex(currentTime, scenario.markers)
    IN  MarkerTime(pair.after) - MarkerTime(pair.before)

\* C15: for an ascending marker list, duplicate times included, every
\* value of the snapshot is a finite number at every query time and no
\* division by zero is performed; at the time of a zero-width interval i
\* the unrounded effects are series[i] (progress 0).
C15_ZeroWidthYieldsItsSample ==
    (Snapshot /\ SeriesMatchMarkers) =>
        /\ \A k \in EffectKeys : IsFinite(interpolatedData.data[k])
        /\ Divides => SelectedTimeDiff # 0
        /\ ZeroWidthAt # {} =>
              \E i \in ZeroWidthAt : \A k \in UnroundedKeys :
                 interpolatedData.data[k] = Series(k)[i]

\* C15, amended: every value is finite and no division by zero is
\* performed; at a marker time that two or more markers carry the
\* unrounded effects are the sample of the first marker with that time,
\* but the last sample at the last marker time of a list that does not
\* begin with that time.
C15_DuplicateTimesAreDefined ==
    (Snapshot /\ SeriesMatchMarkers) =>
        /\ \A k \in EffectKeys : IsFinite(interpolatedData.data[k])
        /\ Divides => SelectedTimeDiff # 0
        /\ ZeroWidthAt # {} =>
              \A k \in UnroundedKeys :
                 interpolatedData.data[k] =
                    IF currentTime = MarkerTime(NumMarkers)
                         /\ currentTime # MarkerTime(1)
                    THEN Series(k)[NumMarkers]
                    ELSE Series(k)[FirstMarkerAt]

\* Two markers inside the list carry the same time, with different
\* samples; at that time the snapshot holds the first one's sample.
C15_Witness ==
    /\ Snapshot
    /\ SeriesMatchMarkers
    /\ Divides
    /\ \E i \in ZeroWidthAt :
          /\ i = FirstMarkerAt
          /\ Series("blastRadius")[i] # Series("blastRadius")[i + 1]
          /\ interpolatedData.data.blastRadius = Series("blastRadius")[i]

\* C16: at every query time, at and outside the marker range included,
\* casualties, windSpeed and infrastructureDamage are integers, while
\* blastRadius, thermalRadius, temperatureRise and debrisCloud are the
\* unrounded sample or interpolation.
C16_RoundedAtEveryTime ==
    (Snapshot /\ SeriesMatchMarkers) =>
        /\ \A k \in {"casualties", "windSpeed", "infrastructureDamage"} :
              IsInteger(interpolatedData.data[k])
        /\ \A k \in {"blastRadius", "thermalRadius", "temperatureRise",
                      "debrisCloud"} :
              interpolatedData.data[k] =
                 IF currentTime <= MarkerTime(1)
                 THEN Series(k)[1]
                 ELSE IF currentTime >= MarkerTime(NumMarkers)
                 THEN Series(k)[NumMarkers]
                 ELSE Linear(k, FirstBracket)

\* C17: when an effect series has a length different from the marker
\* list, the call ends in a ValidationError and returns no snapshot.
C17_MismatchIsRejected ==
    (interpolatedData.outcome # "none" /\ ~SeriesMatchMarkers) =>
        interpolatedData.outcome = "ValidationError"

\* ------------------------------------------------ claims: the backend path
Payload == currentBackendData.temporal_effects
Converted == frontendFormat.outcome = "converted"
Shown == realtimeData.outcome = "shown"
Grid == Payload.effects.seismic.intensity_grid
NumTimePoints == Len(Payload.time_hours)

\* v is the greatest intensity of the row.
IsMaximumOf(v, row) ==
    /\ \E j \in 1 .. Len(row) : row[j] = v
    /\ \A j \in 1 .. Len(row) : LessEq(row[j], v)

\* C18: the seismic grid [time][distance] is reduced to one number per
\* time, the maximum of that time's row, in the adapter's seismicIntensity
\* series and in the value shown for the current time index alike.
C18_SeismicIsRowMaximum ==
    /\ (Converted /\ Payload.effects.seismic.present) =>
          \A i \in 1 .. Len(Grid) :
             IsMaximumOf(frontendFormat.data.temporalEffects.seismicIntensity[i],
                         Grid[i])
    /\ (/\ Shown
        /\ Payload.effects.seismic.present
        /\ realtimeData.timeIndex \in 1 .. Len(Grid)) =>
          IsMaximumOf(realtimeData.data.seismicIntensity,
                      Grid[realtimeData.timeIndex])

\* The row of the current time index has its maximum away from the first
\* distance; the value shown and the adapter's sample are that maximum.
C18_Witness ==
    /\ Converted
    /\ Shown
    /\ Payload.effects.seismic.present
    /\ realtimeData.timeIndex \in 1 .. Len(Grid)
    /\ LET row == Grid[realtimeData.timeIndex]
           shown == realtimeData.data.seismicIntensity
       IN  /\ shown # row[1]
           /\ IsMaximumOf(shown, row)
           /\ frontendFormat.data.temporalEffects
                 .seismicIntensity[realtimeData.timeIndex] = shown

\* C19: for every backend payload each effect series convertToFrontendFormat
\* returns has exactly as many samples as time_hours, whether the family's
\* timeline is absent, shorter, equal or longer.
C19_SeriesLengthsMatchTimeHours ==
    Converted =>
        \A k \in DOMAIN frontendFormat.data.temporalEffects :
           Len(frontendFormat.data.temporalEffects[k]) = NumTimePoints

\* The cursor's time in hours, and the thermal samples as the code reads
\* them.
CursorHours == Div(Num(currentTime), Num(SecondsPerHour))
SampleHour(i) == Num(Payload.time_hours[i])
ThermalSample(i) ==
    OrDefault(Payload.effects.thermal.timeline[i].thermal_radius_km, Num(0))

\* The thermal family carries one entry per sample time.
ThermalComplete ==
    /\ Payload.effects.thermal.present
    /\ Len(Payload.effects.thermal.timeline) = NumTimePoints

\* The cursor lies strictly between sample times i and i + 1.
BetweenSamples(i) ==
    Less(SampleHour(i), CursorHours) /\ Less(CursorHours, SampleHour(i + 1))

\* The piecewise-linear value between thermal samples i and i + 1.
ThermalLinear(i) ==
    LET p == Div(Sub(CursorHours, SampleHour(i)),
                 Sub(SampleHour(i + 1), SampleHour(i)))
    IN  Add(ThermalSample(i), Mul(p, Sub(ThermalSample(i + 1), ThermalSample(i))))

\* The distance in hours from the cursor to sample time i.
Distance(i) == MathAbs(Sub(SampleHour(i), CursorHours))

\* The sample time closest to the cursor, the earlier one of two equally
\* close.
ClosestSample ==
    CHOOSE i \in 1 .. NumTimePoints :
        /\ \A j \in 1 .. NumTimePoints : LessEq(Distance(i), Distance(j))
        /\ \A j \in 1 .. i - 1 : Less(Distance(i), Distance(j))

\* C20: with backend time_hours data, the value shown for a timeline time
\* between two backend sample times is the piecewise-linear interpolation
\* of the two neighbouring samples, and outside the sampled range it is
\* the first or the last sample.
C20_BackendValuesInterpolated ==
    (Shown /\ ThermalComplete) =>
        /\ \A i \in 1 .. NumTimePoints - 1 :
              BetweenSamples(i) =>
                 realtimeData.data.thermalRadius = ThermalLinear(i)
        /\ LessEq(CursorHours, SampleHour(1)) =>
              realtimeData.data.thermalRadius = ThermalSample(1)
        /\ LessEq(SampleHour(NumTimePoints), CursorHours) =>
              realtimeData.data.thermalRadius = ThermalSample(NumTimePoints)

\* C20, amended: the value shown for a timeline time is that of the backend
\* sample whose time is closest to it, the earlier one of two equally
\* close, with no interpolation; outside the sampled range that is the
\* first or the last sample.
C20_BackendValuesAtClosestSample ==
    Shown =>
        /\ realtimeData.timeIndex = ClosestSample
        /\ ThermalComplete =>
              realtimeData.data.thermalRadius = ThermalSample(ClosestSample)
        /\ LessEq(CursorHours, SampleHour(1)) => realtimeData.timeIndex = 1
        /\ (LessEq(SampleHour(NumTimePoints), CursorHours) /\ ThermalComplete) =>
              realtimeData.data.thermalRadius = ThermalSample(NumTimePoints)

\* The cursor lies midway between two sample times with different thermal
\* radii; the value shown is the earlier sample, not the value in between.
C20_Witness ==
    /\ Shown
    /\ ThermalComplete
    /\ \E i \in 1 .. NumTimePoints - 1 :
          /\ BetweenSamples(i)
          /\ Distance(i) = Distance(i + 1)
          /\ ThermalSample(i) # ThermalSample(i + 1)
          /\ realtimeData.timeIndex = i
          /\ realtimeData.data.thermalRadius = ThermalSample(i)
          /\ realtimeData.data.thermalRadius # ThermalLinear(i)

\* ------------------------------------------------- one frame pending at most
\* C26: the cursor never has more than one animation-frame callback pending,
\* whatever play, pause, reset, step and setDuration calls are made, play()
\* while playing among them.
C26_AtMostOnePendingFrame == Cardinality(pending) <= 1

\* ------------------------------------------------ claims: the closest sample
\* C29: for a non-empty time_hours in any order and any target time,
\* findClosestTimeIndex returns an index whose sample time is at the least
\* distance from the target, and of the indices at that distance the lowest.
C29_ClosestIndexIsLowestMinimum ==
    Shown =>
        LET found == realtimeData.timeIndex
        IN  /\ found \in 1 .. NumTimePoints
            /\ \A i \in 1 .. NumTimePoints : LessEq(Distance(found), Distance(i))
            /\ \A i \in 1 .. found - 1 : Less(Distance(found), Distance(i))

\* The times are out of order, the closest one is not the first, and a later
\* one on the other side of the cursor is just as close.
C29_Witness ==
    /\ Shown
    /\ realtimeData.timeIndex > 1
    /\ \E j \in realtimeData.timeIndex + 1 .. NumTimePoints :
          /\ Distance(j) = Distance(realtimeData.timeIndex)
          /\ SampleHour(j) # SampleHour(realtimeData.timeIndex)
    /\ \E i \in 1 .. NumTimePoints - 1 : Less(SampleHour(i + 1), SampleHour(i))

\* --------------------------------------------------- claims: scenario loads
LoadsDone == requests = {}

\* The scenario id of the latest loadScenario call.
LatestRequested == requested[Len(requested)]

\* C25: after loadScenario(A) and then loadScenario(B), once every response
\* has arrived, currentScenario, currentBackendData and the timeline's
\* duration are those of B, in whatever order the responses arrived.
C25_LatestLoadWins ==
    (LoadsDone /\ Len(requested) >= 2 /\ failedLoads = {}) =>
        /\ currentScenario = LatestRequested
        /\ currentBackendData =
              [outcome |-> "loaded",
               temporal_effects |-> SampleScenario(LatestRequested)]
        /\ duration = DurationOf(SampleScenario(LatestRequested).time_hours)

\* C27: every load of a known scenario, from the backend or from the
\* hardcoded data, hands setDuration a finite number that is not negative,
\* and leaves 0 <= currentTime <= duration.
C27_LoadSetsFiniteDuration ==
    (/\ lastLoad.call \in {"loadScenario", "response", "failure"}
     /\ lastLoad.scenarioId \in ScenarioIds
     /\ ~lastLoad.backendRequest) =>
        /\ lastLoad.durationSet
        /\ Geq(lastLoad.durationArg, 0)
        /\ Geq(currentTime, 0)
        /\ Geq(duration, currentTime)

\* C28: once a backend load has failed, useBackendData is false for good;
\* every later loadScenario call hands its id to the hardcoded loader and
\* asks the backend for nothing, and the failed load itself ends in the
\* hardcoded loader with its own id.
C28_BackendIsOffAfterFailure ==
    /\ failedLoads # {} => ~useBackendData
    /\ (lastLoad.call = "loadScenario" /\ lastLoad.afterFailure) =>
          /\ ~lastLoad.backendRequest
          /\ lastLoad.hardcoded = lastLoad.scenarioId
          /\ lastLoad.scenarioId \in ScenarioIds =>
                currentScenario = lastLoad.scenarioId
    /\ lastLoad.call = "failure" =>
          /\ lastLoad.hardcoded = lastLoad.scenarioId
          /\ lastLoad.scenarioId \in ScenarioIds =>
                (currentScenario = lastLoad.scenarioId /\ currentBackendData = Unset)

\* A load was in flight when another one failed; a third load, asked for
\* after the failure, went to the hardcoded data.
C28_Witness ==
    /\ failedLoads # {}
    /\ requests # {}
    /\ lastLoad.call = "loadScenario"
    /\ lastLoad.afterFailure
    /\ lastLoad.hardcoded = lastLoad.scenarioId
    /\ currentScenario = lastLoad.scenarioId
    /\ lastLoad.scenarioId \notin failedLoads

\* ------------------------------------------------------ claims: deflection
\* C30: handleImpact is never invoked for an asteroid that has been marked
\* deflected, also when its approach to the target had begun before the
\* deflection.
C30_NoImpactAfterDeflection ==
    \A hit \in impacts : ~hit.wasDeflected

\* An asteroid was deflected after its approach had begun; a later frame
\* found it within reach of the surface and passed it over.
C30_Witness ==
    \E i \in 1 .. Len(asteroids) :
       /\ asteroids[i].isAnimatingToTarget
       /\ asteroids[i].wasDeflected
       /\ asteroids[i].near
       /\ asteroids[i].spared
       /\ \A hit \in impacts : hit.id # asteroids[i].id

\* ------------------------------------------- claims: the population service
CachedKeys == {cache[i].key : i \in 1 .. Len(cache)}
UsedKeys == DOMAIN lastUse

\* C22: the cache never holds more than 500 entries, and they are the most
\* recently used keys, a hit counting as a use: when a key is inserted into
\* a full cache, the one entry dropped is the least recently used one.
C22_CacheHoldsMostRecentKeys ==
    /\ Len(cache) <= CacheCapacity
    /\ Cardinality(CachedKeys) = Len(cache)
    /\ CachedKeys \subseteq UsedKeys
    /\ Cardinality(UsedKeys) >= CacheCapacity => Len(cache) = CacheCapacity
    /\ \A old \in UsedKeys \ CachedKeys :
          \A k \in CachedKeys : lastUse[old] < lastUse[k]

\* The oldest entry of the full cache was hit, then a 501st key came in:
\* the hit entry is still cached and the second oldest one is gone.
C22_Witness ==
    /\ Len(cache) = CacheCapacity
    /\ Cardinality(UsedKeys) = CacheCapacity + 1
    /\ <<0, 0, 5>> \in CachedKeys
    /\ <<0, 0, 6>> \in UsedKeys \ CachedKeys
    /\ query.op = "population_in_radius"
    /\ ~query.hit

\* The latest call was population_in_radius.
Queried == query.op = "population_in_radius"

\* An earlier or the latest return for the arguments of the latest call.
SameArguments(r) ==
    r.center = query.center /\ r.radius_km = query.radius_km

NoCityWithin(center, radius_km) ==
    \A i \in 1 .. Len(Cities) :
       GeoDistance(center, Cities[i]) > radius_km * MetresPerKm

\* C24: a radius that is not positive, a latitude outside [-90, 90] or a
\* longitude outside [-180, 180] gives a ValidationError; a valid query
\* with no city within the radius gives total_population 0, no affected
\* cities and city_count 0, and no error.
C24_ErrorOnlyForInvalidArguments ==
    Queried =>
        LET inRange == /\ query.radius_km > 0
                       /\ query.center.lat \in -MaxLatitude .. MaxLatitude
                       /\ query.center.lng \in -MaxLongitude .. MaxLongitude
        IN  /\ ~inRange => answer = ValidationError
            /\ inRange => answer.outcome = "ok"
            /\ (inRange /\ NoCityWithin(query.center, query.radius_km)) =>
                  answer = [outcome |-> "ok", total_population |-> 0,
                            affected_cities |-> <<>>, city_count |-> 0]

\* A query at the very end of both ranges found no city and no fault,
\* after one just past the end of the latitudes was refused.
C24_Witness ==
    /\ Queried
    /\ query.center = [lat |-> MaxLatitude, lng |-> MaxLongitude]
    /\ answer.outcome = "ok"
    /\ answer.city_count = 0
    /\ \E r \in returned :
          /\ r.center.lat = MaxLatitude + 1
          /\ r.result = ValidationError

\* --------------------------------------------------- claims: casualty zones
\* The latest call was casualties_by_zone, with zones it accepts.
Counted == query.op = "casualties_by_zone" /\ answer.outcome = "ok"

\* The zone lists with the zones of the latest call in another order.
Reordered ==
    {zones \in [1 .. Len(query.zones) -> {query.zones[i] : i \in 1 .. Len(query.zones)}] :
        \A i, j \in 1 .. Len(zones) : i # j => zones[i] # zones[j]}

\* What a city adds to the casualties: nothing outside every zone, else its
\* population at the lethality of the smallest zone around it.
Expected(city) ==
    LET distance == GeoDistance(query.center, city)
        around == {z \in {query.zones[i] : i \in 1 .. Len(query.zones)} :
                      distance <= z.radius_km * MetresPerKm}
        innermost == CHOOSE y \in around :
                        \A x \in around : y.radius_km <= x.radius_km
    IN  IF around = {} THEN 0
        ELSE (city.population * innermost.lethality_rate) \div 100

\* C21: casualties_by_zone counts every city once, at the lethality of the
\* smallest zone that contains it: with the zones (10 km, 1.0) and
\* (50 km, 0.3) around a city of 1000 some 5 km away the total is exactly
\* 1000, and the total is the same for every order of the zone list.
C21_CityCountedOnceAtInnermostZone ==
    Counted =>
        /\ answer.total_casualties =
              SumOf([c \in 1 .. Len(Cities) |-> Expected(Cities[c])])
        /\ (/\ query.center = [lat |-> 0, lng |-> 0]
            /\ {<<query.zones[i].radius_km, query.zones[i].lethality_rate>> :
                   i \in 1 .. Len(query.zones)} = {<<10, 100>>, <<50, 30>>}) =>
              answer.total_casualties = 1000
        /\ \A zones \in Reordered :
              Casualties(query.center, zones).total_casualties =
                 answer.total_casualties

\* The outer zone comes first in the list, and the city inside both is
\* still counted once, at the inner zone's lethality.
C21_Witness ==
    /\ Counted
    /\ query.center = [lat |-> 0, lng |-> 0]
    /\ Len(query.zones) = 2
    /\ query.zones[1].radius_km = 50
    /\ query.zones[2].radius_km = 10
    /\ answer.total_casualties = 1000
    /\ answer.zones[1].population_in_zone = 1000
    /\ answer.zones[2].population_in_zone = 1000

====
